---- MODULE Spec2Model ----
(***************************************************************************)
(* EduAI-suite backend: the notes pipeline (upload_note, ask_question,     *)
(* delete_note) over the relational store (notes), the per-student Chroma  *)
(* collections (chroma) and the Cloudinary blob store (blobs).             *)
(*                                                                         *)
(* Representation.  A text is a run-length sequence of [c, n] runs (n >= 1,*)
(* adjacent runs differ in c), so that the real sizes 500 / 50 / 5000 can  *)
(* be used.  A file name and a student id are sequences of characters.     *)
(* A uuid4() value is a fresh positive integer.  Python's None is NULL in  *)
(* a string field and Nothing (the empty tuple) in an optional field.      *)
(***************************************************************************)
EXTENDS Integers, Sequences, FiniteSets, TLC

VARIABLES
    notes,      \* relational table "notes": set of Note rows
    chroma,     \* vector store: collection name -> set of chunks
    blobs,      \* Cloudinary: set of stored secure URLs
    nextUuid,   \* number of uuid4() values drawn so far
    faults,     \* number of collaborator failures injected so far
    resp,       \* outcome of the request being answered (BaseOutcome: idle)
    origin,     \* history: per indexing upload, its Chroma note_id (cid),
                \*   student, number of chunks and Note id (0: none saved)
    deleted,    \* history: [id, student] of the deletes that returned 200
    idA, idB,   \* inputs of the collection-name check
    nameA, nameB, \* their collection names
    ck,         \* a call of chunk_text run statement by statement: its
                \*   arguments, locals and position
    threads,    \* uploads served concurrently: per worker thread, its
                \*   position in upload_note and its locals
    ex,         \* a call of extract_text: its arguments and what it gave
    applications, \* relational table "job_applications"
    appUuid,    \* number of uuid4() values drawn for job applications
    users,      \* relational table "users"
    regs,       \* register_user served concurrently: per worker thread,
                \*   its position, its request and its response
    logins,     \* two login requests and their responses
    md          \* a call of add_to_collection followed through the heap:
                \*   the caller's dict, the list of line 58 and what the
                \*   collection holds for each chunk

vars == <<notes, chroma, blobs, nextUuid, faults, resp, origin, deleted,
          idA, idB, nameA, nameB, ck, threads, ex, applications, appUuid,
          users, regs, logins, md>>

\* ---------------------------------------------------------------- bounds
\* the uploads that enter the pipeline plus the collaborator failures
\* injected, in one behaviour
MaxEvents  == 2
MaxIdLen   == 3     \* length of the identifiers given to the name mapping
MaxTextLen   == 3   \* length of the texts given to the stepped chunk_text
MaxChunkSize == 3   \* largest chunk_size and overlap given to it
MaxChunks    == 3   \* chunks handed to one add_to_collection call
MaxThreads   == 2   \* uploads served at the same time

\* ------------------------------------------------------------- constants
ChunkSize  == 500
Overlap    == 50
TextCap    == 5000
NResults   == 5

NULL    == "<None>"
Nothing == << >>
Some(x) == <<x>>

\* ------------------------------------------------------------------ text
Whitespace == {" ", "\n"}

Run(ch, k) == [c |-> ch, n |-> k]

RECURSIVE TextLen(_)
TextLen(t) == IF t = << >> THEN 0 ELSE t[1].n + TextLen(Tail(t))

RECURSIVE Drop(_, _)
Drop(t, k) ==
    IF k <= 0 \/ t = << >> THEN t
    ELSE IF t[1].n <= k THEN Drop(Tail(t), k - t[1].n)
    ELSE <<Run(t[1].c, t[1].n - k)>> \o Tail(t)

RECURSIVE Take(_, _)
Take(t, k) ==
    IF k <= 0 \/ t = << >> THEN << >>
    ELSE IF t[1].n <= k THEN <<t[1]>> \o Take(Tail(t), k - t[1].n)
    ELSE <<Run(t[1].c, k)>>

Min(a, b) == IF a <= b THEN a ELSE b
Max(a, b) == IF a >= b THEN a ELSE b

\* where a slice bound lands in a string of length n: a negative bound
\* counts from the end, and both ends are clamped
SliceBound(i, n) == IF i < 0 THEN Max(i + n, 0) ELSE Min(i, n)

\* text[a:b]
Slice(t, a, b) ==
    LET n  == TextLen(t)
        a2 == SliceBound(a, n)
        b2 == SliceBound(b, n)
    IN  Take(Drop(t, a2), b2 - a2)

\* s + t
Concat(s, t) ==
    IF s = << >> THEN t
    ELSE IF t = << >> THEN s
    ELSE IF s[Len(s)].c = t[1].c
         THEN SubSeq(s, 1, Len(s) - 1)
              \o <<Run(t[1].c, s[Len(s)].n + t[1].n)>> \o Tail(t)
         ELSE s \o t

RECURSIVE LStrip(_)
LStrip(t) ==
    IF t = << >> THEN t
    ELSE IF t[1].c \in Whitespace THEN LStrip(Tail(t)) ELSE t

RECURSIVE RStrip(_)
RStrip(t) ==
    IF t = << >> THEN t
    ELSE IF t[Len(t)].c \in Whitespace THEN RStrip(SubSeq(t, 1, Len(t) - 1))
    ELSE t

Strip(t) == RStrip(LStrip(t))

\* ------------------------------------------------------------ file names
Lower(ch) ==
    CASE ch = "P" -> "p" [] ch = "D" -> "d" [] ch = "F" -> "f"
      [] ch = "N" -> "n" [] ch = "G" -> "g" [] ch = "B" -> "b"
      [] ch = "M" -> "m" [] ch = "S" -> "s" [] ch = "O" -> "o"
      [] ch = "U" -> "u" [] OTHER -> ch

LowerAll(s) == [i \in 1..Len(s) |-> Lower(s[i])]

\* s.split(".")[-1]
RECURSIVE LastPart(_)
LastPart(s) ==
    IF \A i \in 1..Len(s) : s[i] # "." THEN s
    ELSE LastPart(Tail(s))

allowed_types_with_exe ==
    { <<"p","d","f">>, <<"j","p","g">>, <<"j","p","e","g">>,
      <<"p","n","g">>, <<"b","m","p">>, <<"t","i","f","f">>,
      <<"e","x","e">> }

allowed_types == { <<"p","d","f">>, <<"j","p","g">>, <<"j","p","e","g">>,
                   <<"p","n","g">>, <<"b","m","p">>, <<"t","i","f","f">> }

image_types == allowed_types \ { <<"p","d","f">> }

\* ------------------------------------------------------- text extraction
\* Uploaded bytes: what they really are (kind), and the page texts a
\* working parser / OCR pass reads from them.
PdfBytes(pages)  == [kind |-> "pdf",   pages |-> pages]
ImageBytes(text) == [kind |-> "image", pages |-> <<text>>]

RECURSIVE JoinPages(_)
JoinPages(pages) ==
    IF pages = << >> THEN << >>
    ELSE Concat(pages[1], JoinPages(Tail(pages)))

\* bytes that are no document and no image
CorruptBytes == [kind |-> "corrupt", pages |-> << >>]

\* An extractor returns its text, or an exception leaves it (raised).
\* lib = "fail": the parser library raises for a reason of its own; it
\* also raises on bytes that are not of its kind.
extract_text_from_pdf_no_except(file_bytes, lib) ==
    IF lib = "fail" \/ file_bytes.kind # "pdf"
    THEN [raised |-> TRUE, text |-> << >>]
    ELSE [raised |-> FALSE, text |-> Strip(JoinPages(file_bytes.pages))]

extract_text_from_pdf(file_bytes, lib) ==
    IF lib = "fail" \/ file_bytes.kind # "pdf"
    THEN [raised |-> FALSE, text |-> << >>]
    ELSE [raised |-> FALSE, text |-> Strip(JoinPages(file_bytes.pages))]

extract_text_from_image(file_bytes, lib) ==
    IF lib = "fail" \/ file_bytes.kind # "image"
    THEN [raised |-> FALSE, text |-> << >>]
    ELSE [raised |-> FALSE, text |-> Strip(file_bytes.pages[1])]

extract_text(file_bytes, file_type, lib) ==
    IF file_type = <<"p","d","f">> THEN extract_text_from_pdf(file_bytes, lib)
    ELSE IF file_type \in image_types
         THEN extract_text_from_image(file_bytes, lib)
    ELSE [raised |-> FALSE, text |-> << >>]

\* -------------------------------------------------------------- chunking
\* the locals at the loop head; stale: what an earlier call left in the
\* list
chunk_entry_shared_list(stale) == [start |-> 0, chunks |-> stale]

chunk_entry(stale) == [start |-> 0, chunks |-> << >>]

\* one pass through the loop body
chunk_iteration_no_overlap(text, chunk_size, overlap, start, chunks) ==
    LET chunk == Slice(text, start, start + chunk_size)
    IN  [start  |-> start + chunk_size,
         chunks |-> IF Strip(chunk) # << >> THEN Append(chunks, chunk)
                    ELSE chunks]

chunk_iteration(text, chunk_size, overlap, start, chunks) ==
    LET end   == start + chunk_size
        chunk == Slice(text, start, end)
    IN  [start  |-> start + chunk_size - overlap,
         chunks |-> IF Strip(chunk) # << >> THEN Append(chunks, chunk)
                    ELSE chunks]

RECURSIVE chunk_loop(_, _, _, _, _)
chunk_loop(text, chunk_size, overlap, start, chunks) ==
    IF ~(start < TextLen(text)) THEN chunks
    ELSE LET it == chunk_iteration(text, chunk_size, overlap, start, chunks)
         IN  chunk_loop(text, chunk_size, overlap, it.start, it.chunks)

\* the call as a whole (it returns for overlap < chunk_size)
chunk_text(text, chunk_size, overlap) ==
    IF text = << >> THEN << >>
    ELSE LET e == chunk_entry(<< >>)
         IN  chunk_loop(text, chunk_size, overlap, e.start, e.chunks)

\* ------------------------------------------------------------ Cloudinary
\* Result: the URL handed back and whether the file was stored.
SecureUrl(student_id, file_name, uid) ==
    [scheme |-> "https", student |-> student_id, file |-> file_name,
     uid |-> uid]

LocalUrl(student_id, file_name) ==
    [scheme |-> "local", student |-> student_id, file |-> file_name,
     uid |-> 0]

upload_to_cloudinary(file_name, student_id, uid, cloud) ==
    IF cloud = "ok"
    THEN [url |-> SecureUrl(student_id, file_name, uid), stored |-> TRUE]
    ELSE [url |-> LocalUrl(student_id, file_name), stored |-> FALSE]

\* ---------------------------------------------------------------- Gemini
\* What model.generate_content does in one call: it raises (ok = FALSE) or
\* answers.  A classification answer is a sequence of lines, a line being
\* its leading tag and the stripped remainder; any other answer is a text.
GenFail      == [ok |-> FALSE, lines |-> << >>, text |-> ""]
GenLines(ls) == [ok |-> TRUE,  lines |-> ls,    text |-> ""]
GenText(t)   == [ok |-> TRUE,  lines |-> << >>, text |-> t]

Line(tag, val) == [tag |-> tag, val |-> val]

\* What the model answers when it answers: a classification that depends
\* on the text it is shown, a summary, a grounded answer.
ClassifyAnswer(text) ==
    IF \E i \in 1..Len(text) : text[i].c = "y"
    THEN GenLines(<<Line("SUBJECT:", "OS"), Line("TOPIC:", "Paging"),
                    Line("CHAPTER:", "Memory")>>)
    ELSE GenLines(<<Line("SUBJECT:", "DBMS"), Line("TOPIC:", "Normalization"),
                    Line("CHAPTER:", "null")>>)

SummaryAnswer  == GenText("* key points")
GroundedAnswer == GenText("grounded answer")

Gen(outcome, answer) == IF outcome = "ok" THEN answer ELSE GenFail

RECURSIVE classify_lines(_, _)
classify_lines(lines, result) ==
    IF lines = << >> THEN result
    ELSE LET line == lines[1]
             r == IF line.tag = "SUBJECT:"
                    THEN [result EXCEPT !.subject = line.val]
                  ELSE IF line.tag = "TOPIC:"
                    THEN [result EXCEPT !.topic = line.val]
                  ELSE IF line.tag = "CHAPTER:"
                    THEN [result EXCEPT !.chapter =
                            IF line.val = "null" THEN NULL ELSE line.val]
                  ELSE result
         IN  classify_lines(Tail(lines), r)

classify_note(text, gen) ==
    IF ~gen.ok
    THEN [subject |-> "Unknown", topic |-> "Unknown", chapter |-> NULL]
    ELSE classify_lines(gen.lines, [subject |-> NULL, topic |-> NULL,
                                    chapter |-> NULL])

SummaryUnavailable == "Summary not available."

summarize_note(text, gen) ==
    IF ~gen.ok THEN SummaryUnavailable ELSE gen.text

NotFoundAnswer == "I couldn't find relevant information in your notes to answer this question. Try uploading more notes on this topic."
ApologyAnswer  == "Sorry, I couldn't generate an answer right now. Please try again."

\* Result: the answer, the number of generate_content calls made, and
\* whether an exception leaves the function.
answer_question_no_guard(question, context_chunks, gen) ==
    IF ~gen.ok
    THEN [answer |-> ApologyAnswer, calls |-> 1, raised |-> FALSE]
    ELSE [answer |-> gen.text, calls |-> 1, raised |-> FALSE]

answer_question_no_except(question, context_chunks, gen) ==
    IF context_chunks = << >>
    THEN [answer |-> NotFoundAnswer, calls |-> 0, raised |-> FALSE]
    ELSE IF ~gen.ok
    THEN [answer |-> NULL, calls |-> 1, raised |-> TRUE]
    ELSE [answer |-> gen.text, calls |-> 1, raised |-> FALSE]

answer_question_with_context(question, context_chunks, gen) ==
    IF context_chunks = << >>
    THEN [answer |-> NotFoundAnswer, calls |-> 0, raised |-> FALSE]
    ELSE IF ~gen.ok
    THEN [answer |-> ApologyAnswer, calls |-> 1, raised |-> FALSE]
    ELSE [answer |-> gen.text, calls |-> 1, raised |-> FALSE]

\* ---------------------------------------------------------------- Chroma
\* A chunk is [id, document, metadata]; id is <<note_id, i>> for
\* "{note_id}_chunk_{i}".  A store maps the names of the collections that
\* exist to their chunks.  An operation returns the store it leaves and
\* whether it raised.
ReplaceChar(s, from, to) ==
    [i \in 1..Len(s) |-> IF s[i] = from THEN to ELSE s[i]]

collection_name_shared(student_id) == <<"s","t","u","d","e","n","t","_">>

collection_name(student_id) ==
    <<"s","t","u","d","e","n","t","_">> \o ReplaceChar(student_id, "-", "_")

get_or_create_collection(store, student_id) ==
    LET name == collection_name(student_id)
    IN  [name  |-> name,
         store |-> IF name \in DOMAIN store THEN store
                   ELSE store @@ (name :> {})]

\* a "where" filter is a record of required metadata values; no filter is
\* the empty record
NoWhere == << >>

Matches(metadata, where) ==
    \A k \in DOMAIN where : k \in DOMAIN metadata /\ metadata[k] = where[k]

ChunkIds(chunks) == { c.id : c \in chunks }

collection_add_replacing(collection, note_id, chunks, metadata) ==
    { [id |-> <<note_id, i - 1>>, document |-> chunks[i],
       metadata |-> metadata] : i \in 1..Len(chunks) }

\* lines 55-64: the ids, the metadatas and collection.add, which leaves
\* a record alone whose id the collection already holds
collection_add(collection, note_id, chunks, metadata) ==
    LET ids == [i \in 1..Len(chunks) |-> <<note_id, i - 1>>]
        new == { [id |-> ids[i], document |-> chunks[i],
                  metadata |-> metadata] : i \in 1..Len(chunks) }
    IN  collection \cup { n \in new : n.id \notin ChunkIds(collection) }

\* be = [coll, op]: outcome of resolving the collection and of the call on it
add_to_collection(store, student_id, note_id, chunks, metadata, be) ==
    IF be.coll = "fail" THEN [raised |-> TRUE, store |-> store]
    ELSE LET c == get_or_create_collection(store, student_id)
         IN  IF be.op = "fail" THEN [raised |-> TRUE, store |-> c.store]
             ELSE [raised |-> FALSE,
                   store  |-> [c.store EXCEPT ![c.name] =
                       collection_add(@, note_id, chunks, metadata)]]

\* The similarity ranking of the candidates for a query.  The embedding is
\* a fixed function of the two texts; two questions stand for two such
\* orders: by note and position, and by position (later windows first) and
\* note, which interleaves the chunks of different notes.
Questions == { "What is normalization?", "What is paging?" }

Closer(query, c, d) ==
    IF query = "What is normalization?"
    THEN c.id[1] < d.id[1] \/ (c.id[1] = d.id[1] /\ c.id[2] < d.id[2])
    ELSE c.id[2] > d.id[2] \/ (c.id[2] = d.id[2] /\ c.id[1] < d.id[1])

RECURSIVE Ranked(_, _)
Ranked(query, chunks) ==
    IF chunks = {} THEN << >>
    ELSE LET first == CHOOSE c \in chunks :
                          \A d \in chunks \ {c} : Closer(query, c, d)
         IN  <<first>> \o Ranked(query, chunks \ {first})

Query_unbounded(chunks, query, n_results, where) ==
    Ranked(query, { c \in chunks : Matches(c.metadata, where) })

\* collection.query(query_texts=[query], n_results=n_results, where=where)
Query(chunks, query, n_results, where) ==
    LET ranked == Ranked(query, { c \in chunks : Matches(c.metadata, where) })
    IN  SubSeq(ranked, 1, Min(n_results, Len(ranked)))

SearchWhere_ignored(subject_filter) == NoWhere

SearchWhere(subject_filter) ==
    IF subject_filter # NULL /\ subject_filter # ""
    THEN [subject |-> subject_filter] ELSE NoWhere

search_collection(store, student_id, query, n_results, subject_filter, be) ==
    IF be.coll = "fail"
    THEN [raised |-> TRUE, store |-> store, results |-> << >>]
    ELSE LET c     == get_or_create_collection(store, student_id)
             where == SearchWhere(subject_filter)
         IN  IF be.op = "fail"
             THEN [raised |-> FALSE, store |-> c.store, results |-> << >>]
             ELSE [raised |-> FALSE, store |-> c.store,
                   results |-> Query(c.store[c.name], query, n_results,
                                     where)]

delete_from_collection(store, student_id, note_id, be) ==
    IF be.coll = "fail" THEN [raised |-> TRUE, store |-> store]
    ELSE LET c   == get_or_create_collection(store, student_id)
             ids == { x.id : x \in { y \in c.store[c.name] :
                        Matches(y.metadata, [note_id |-> note_id]) } }
         IN  IF be.op = "fail" THEN [raised |-> TRUE, store |-> c.store]
             ELSE [raised |-> FALSE,
                   store  |-> IF ids # {}
                              THEN [c.store EXCEPT ![c.name] =
                                       { y \in @ : y.id \notin ids }]
                              ELSE c.store]

\* ------------------------------------------------------------- requests
\* The outcome of a request: what the caller gets (status, note, answer,
\* sources), the stores it leaves, and a record of what it did on the way
\* (trace: the collaborator calls in order; genCalls: generate_content
\* calls; retrieved: the chunks the search returned; fired: the injected
\* failures that were hit).
BaseOutcome ==
    [op |-> "none", student |-> << >>, status |-> 0, trace |-> << >>,
     genCalls |-> 0, note |-> Nothing, note_id |-> 0, found |-> FALSE,
     answer |-> NULL, sources |-> << >>, retrieved |-> << >>,
     searched |-> FALSE, question |-> NULL, subject_filter |-> NULL,
     extension |-> << >>, text |-> << >>, chroma_id |-> 0, nchunks |-> 0,
     listed |-> << >>, fired |-> {}, application_id |-> 0,
     application |-> Nothing]

OrUnknown(x) == IF x = NULL \/ x = "" THEN "Unknown" ELSE x

FiredIn(pairs) == { p[1] : p \in { q \in pairs : q[2] } }

\* line 201: the note_id handed to add_to_collection is a uuid4() drawn
\* for it (drawn: the value the generator gives)
chunk_note_id_from_name(drawn, file_name) == Len(file_name)

chunk_note_id(drawn, file_name) == drawn

\* lines 203-208
chunk_metadata(classification, file_name, source) ==
    [subject   |-> OrUnknown(classification.subject),
     topic     |-> OrUnknown(classification.topic),
     file_name |-> file_name,
     source    |-> source]

new_note_untruncated(id, student_id, classification, file_url, file_name, extension, extracted_text, summary, source) ==
    [id             |-> id,
     student_id     |-> student_id,
     subject        |-> classification.subject,
     topic          |-> classification.topic,
     chapter        |-> classification.chapter,
     file_url       |-> file_url,
     file_name      |-> file_name,
     file_type      |-> extension,
     extracted_text |-> IF extracted_text # << >>
                        THEN Some(extracted_text) ELSE Nothing,
     summary        |-> summary,
     source         |-> IF source = "student" THEN "STUDENT" ELSE "FACULTY",
     created_at     |-> id]

\* lines 212-224; id: the uuid4() drawn for the row
new_note(id, student_id, classification, file_url, file_name, extension, extracted_text, summary, source) ==
    [id             |-> id,
     student_id     |-> student_id,
     subject        |-> classification.subject,
     topic          |-> classification.topic,
     chapter        |-> classification.chapter,
     file_url       |-> file_url,
     file_name      |-> file_name,
     file_type      |-> extension,
     extracted_text |-> IF extracted_text # << >>
                        THEN Some(Take(extracted_text, TextCap))
                        ELSE Nothing,
     summary        |-> summary,
     source         |-> IF source = "student" THEN "STUDENT" ELSE "FACULTY",
     \* server_default=func.now(): rows are inserted in the order their
     \* ids are drawn
     created_at     |-> id]

\* line 186: `if extracted_text:`
should_process_always(extracted_text) == TRUE

should_process(extracted_text) == extracted_text # << >>

\* the collaborator calls of one upload that passed the extension check,
\* in the order the statements make them, up to the vector-store step
pipeline_trace_index_first(has_text, indexing) ==
    <<"read", "cloudinary">>
    \o (IF indexing THEN <<"chroma.add">> ELSE << >>)
    \o <<"extract">>
    \o (IF has_text THEN <<"classify", "summarize", "chunk">> ELSE << >>)

pipeline_trace(has_text, indexing) ==
    <<"read", "cloudinary", "extract">>
    \o (IF has_text THEN <<"classify", "summarize", "chunk">> ELSE << >>)
    \o (IF indexing THEN <<"chroma.add">> ELSE << >>)

\* env = [cloud, lib, classify, summarize, be, commit]; uid: uuid4() values
\* uid + 1 .. uid + 3 are the ones this call draws
upload_note(db, store, blobset, student_id, file, source, uid, env) ==
    LET file_name == file.name
        extension == LowerAll(LastPart(file_name))
        base      == [BaseOutcome EXCEPT !.op = "upload",
                        !.student = student_id, !.extension = extension]
    IN
    IF extension \notin allowed_types
    THEN [out |-> [base EXCEPT !.status = 400, !.trace = <<"read">>],
          db |-> db, store |-> store, blobs |-> blobset]
    ELSE
    LET up             == upload_to_cloudinary(file_name, student_id,
                                               uid + 1, env.cloud)
        blobs2         == IF up.stored THEN blobset \cup {up.url}
                          ELSE blobset
        extraction     == extract_text(file.bytes, extension, env.lib)
        extracted_text == extraction.text
        has_text       == should_process(extracted_text)
        classification == IF has_text
                          THEN classify_note(extracted_text,
                                   Gen(env.classify,
                                       ClassifyAnswer(extracted_text)))
                          ELSE [subject |-> NULL, topic |-> NULL,
                                chapter |-> NULL]
        summary        == IF has_text
                          THEN summarize_note(extracted_text,
                                   Gen(env.summarize, SummaryAnswer))
                          ELSE NULL
        chunks         == IF has_text
                          THEN chunk_text(extracted_text, ChunkSize, Overlap)
                          ELSE << >>
        indexing       == has_text /\ chunks # << >>
        metadata       == chunk_metadata(classification, file_name, source)
        note_id        == chunk_note_id(uid + 2, file_name)
        added          == IF indexing
                          THEN add_to_collection(store, student_id, note_id,
                                                 chunks, metadata, env.be)
                          ELSE [raised |-> FALSE, store |-> store]
        note           == new_note(uid + 3, student_id, classification,
                                   up.url, file_name, extension,
                                   extracted_text, summary, source)
        trace1         == pipeline_trace(has_text, indexing)
        fired1         == FiredIn({ <<"cloud", env.cloud = "fail">>,
                            <<"lib", env.lib = "fail">>,
                            <<"classify", has_text /\ env.classify = "fail">>,
                            <<"summarize", has_text
                                           /\ env.summarize = "fail">>,
                            <<"coll", indexing /\ env.be.coll = "fail">>,
                            <<"op", indexing /\ env.be.coll = "ok"
                                    /\ env.be.op = "fail">> })
        done           == [base EXCEPT !.trace = trace1,
                             !.genCalls = IF has_text THEN 2 ELSE 0,
                             !.text = extracted_text,
                             !.chroma_id = IF indexing /\ ~added.raised
                                           THEN note_id ELSE 0,
                             !.nchunks = IF indexing /\ ~added.raised
                                         THEN Len(chunks) ELSE 0,
                             !.fired = fired1]
    IN
    IF extraction.raised
    THEN [out |-> [base EXCEPT !.status = 500,
                     !.trace = <<"read", "cloudinary", "extract">>,
                     !.fired = FiredIn({ <<"cloud", env.cloud = "fail">>,
                                         <<"lib", env.lib = "fail">> })],
          db |-> db, store |-> store, blobs |-> blobs2]
    ELSE IF added.raised
    THEN [out |-> [done EXCEPT !.status = 500],
          db |-> db, store |-> added.store, blobs |-> blobs2]
    ELSE IF env.commit = "fail"
    THEN [out |-> [done EXCEPT !.status = 500,
                     !.trace = Append(trace1, "db.commit"),
                     !.fired = fired1 \cup {"commit"}],
          db |-> db, store |-> added.store, blobs |-> blobs2]
    ELSE [out |-> [done EXCEPT !.status = 201, !.note = Some(note),
                     !.trace = Append(trace1, "db.commit")],
          db |-> db \cup {note}, store |-> added.store, blobs |-> blobs2]

\* The characters of the strings the classifier and the callers use.
Chars(str) ==
    CASE str = "DBMS"    -> <<"D","B","M","S">>
      [] str = "OS"      -> <<"O","S">>
      [] str = "Unknown" -> <<"U","n","k","n","o","w","n">>
      [] str = "db"      -> <<"d","b">>
      [] str = ""        -> << >>

\* column ILIKE '%pattern%'; a NULL column matches nothing
ILikeContains(column, pattern) ==
    /\ column # NULL
    /\ LET hay    == LowerAll(Chars(column))
           needle == LowerAll(Chars(pattern))
       IN  \E i \in 0..(Len(hay) - Len(needle)) :
               SubSeq(hay, i + 1, i + Len(needle)) = needle

\* ORDER BY created_at DESC
RECURSIVE NewestFirst(_)
NewestFirst(rows) ==
    IF rows = {} THEN << >>
    ELSE LET first == CHOOSE r \in rows :
                          \A q \in rows : q.created_at <= r.created_at
         IN  <<first>> \o NewestFirst(rows \ {first})

get_notes_always_filtered(db, student_id, subject) ==
    NewestFirst({ n \in db : /\ n.student_id = student_id
                             /\ ILikeContains(n.subject,
                                    IF subject = NULL THEN "" ELSE subject) })

get_notes(db, student_id, subject) ==
    NewestFirst({ n \in db :
        /\ n.student_id = student_id
        /\ (subject # NULL /\ subject # "") =>
               ILikeContains(n.subject, subject) })

\* GET /api/notes/: the rows as returned, newest first
list_notes(db, student_id, subject) ==
    [out |-> [BaseOutcome EXCEPT !.op = "list", !.student = student_id,
                !.status = 200, !.subject_filter = subject,
                !.listed = get_notes(db, student_id, subject)]]

\* f"{meta.get('subject', 'Unknown')} - {meta.get('file_name', 'Unknown')}",
\* as the sequence of its characters
SourceString(meta) ==
    (IF "subject" \in DOMAIN meta THEN Chars(meta.subject)
     ELSE Chars("Unknown"))
    \o <<" ", "-", " ">>
    \o (IF "file_name" \in DOMAIN meta THEN meta.file_name
        ELSE Chars("Unknown"))

InSeq(x, q) == \E i \in 1..Len(q) : q[i] = x

RECURSIVE collect_sources(_, _)
collect_sources(metadatas, sources) ==
    IF metadatas = << >> THEN sources
    ELSE LET source == SourceString(metadatas[1])
         IN  collect_sources(Tail(metadatas),
                             IF ~InSeq(source, sources)
                             THEN Append(sources, source) ELSE sources)

\* lines 270-279
sources_of_no_dedup(metadatas) ==
    [i \in 1..Len(metadatas) |-> SourceString(metadatas[i])]

sources_of(metadatas) == collect_sources(metadatas, << >>)

\* env = [be, gen]
ask_question(store, student_id, question, subject_filter, env) ==
    LET base == [BaseOutcome EXCEPT !.op = "ask", !.student = student_id,
                   !.question = question, !.subject_filter = subject_filter]
        s    == search_collection(store, student_id, question, NResults,
                                  subject_filter, env.be)
    IN
    IF s.raised
    THEN [out |-> [base EXCEPT !.status = 500, !.trace = <<"chroma.query">>,
                     !.fired = {"coll"}],
          store |-> s.store]
    ELSE
    LET documents      == [i \in 1..Len(s.results) |-> s.results[i].document]
        metadatas      == [i \in 1..Len(s.results) |-> s.results[i].metadata]
        context_chunks == documents
        sources        == IF documents # << >>
                          THEN sources_of(metadatas) ELSE << >>
        a              == answer_question_with_context(question,
                              context_chunks, Gen(env.gen, GroundedAnswer))
        fired          == FiredIn({ <<"op", env.be.op = "fail">>,
                              <<"gen", a.calls > 0 /\ env.gen = "fail">> })
    IN
    IF a.raised
    THEN [out |-> [base EXCEPT !.status = 500, !.genCalls = a.calls,
                     !.retrieved = s.results, !.searched = TRUE,
                     !.trace = <<"chroma.query", "generate">>,
                     !.fired = fired],
          store |-> s.store]
    ELSE [out |-> [base EXCEPT !.status = 200, !.answer = a.answer,
                    !.sources = sources, !.genCalls = a.calls,
                    !.retrieved = s.results, !.searched = TRUE,
                    !.trace = <<"chroma.query">>
                        \o (IF a.calls > 0 THEN <<"generate">> ELSE << >>),
                    !.fired = fired],
          store |-> s.store]

\* db.delete(note); db.commit()
remove_note_forgotten(db, found) == db

remove_note(db, found) == db \ found

\* env = [be, commit]
delete_note(db, store, student_id, note_id, env) ==
    LET base  == [BaseOutcome EXCEPT !.op = "delete",
                    !.student = student_id, !.note_id = note_id]
        found == { n \in db : n.id = note_id /\ n.student_id = student_id }
    IN
    IF found = {}
    THEN [out |-> [base EXCEPT !.status = 404], db |-> db, store |-> store]
    ELSE
    LET d     == delete_from_collection(store, student_id, note_id, env.be)
        base2 == [base EXCEPT !.found = TRUE, !.trace = <<"chroma.delete">>]
    IN
    IF d.raised
    THEN [out |-> [base2 EXCEPT !.status = 500,
                     !.fired = IF env.be.coll = "fail" THEN {"coll"}
                               ELSE {"op"}],
          db |-> db, store |-> d.store]
    ELSE IF env.commit = "fail"
    THEN [out |-> [base2 EXCEPT !.status = 500, !.fired = {"commit"},
                     !.trace = <<"chroma.delete", "db.commit">>],
          db |-> db, store |-> d.store]
    ELSE [out |-> [base2 EXCEPT !.status = 200,
                     !.trace = <<"chroma.delete", "db.commit">>],
          db |-> remove_note(db, found), store |-> d.store]

\* ---------------------------------------------------------------- inputs
\* User ids are str(uuid.uuid4()): hexadecimal digits and hyphens at fixed
\* positions (shortened here to digit-hyphen-digit).
Students == { <<"a", "-", "b">>, <<"b", "-", "a">> }

ShortText == <<Run(" ", 2), Run("x", 40), Run("\n", 1)>>
LongText  == <<Run("x", 10), Run(" ", 3900), Run("y", 1500)>>

Files ==
    { [name  |-> <<"a", ".", "p", "d", "f">>,
       bytes |-> PdfBytes(<<ShortText>>)],
      [name  |-> <<"b", ".", "P", "N", "G">>,
       bytes |-> ImageBytes(LongText)],
      [name  |-> <<"a", ".", "p", "d", "f", ".", "e", "x", "e">>,
       bytes |-> PdfBytes(<<ShortText>>)] }

SubjectFilters == { NULL, "", "DBMS" }

\* the subject parameter of the listing
ListSubjects == { NULL, "db" }

Outcomes == { "ok", "fail" }
Backends == [coll : Outcomes, op : Outcomes]

\* env.classify / env.summarize / env.gen: does generate_content answer
UploadEnvs ==
    [cloud : Outcomes, lib : Outcomes, classify : Outcomes,
     summarize : Outcomes, be : Backends, commit : Outcomes]

AskEnvs == [be : Backends, gen : Outcomes]

DeleteEnvs == [be : Backends, commit : Outcomes]

\* the failures an environment holds
EnvFails(env) ==
    { k \in DOMAIN env \ {"be"} : env[k] = "fail" }
    \cup { k \in DOMAIN env.be : env.be[k] = "fail" }

\* the environments the failure budget still allows
UpTo(envs) ==
    [k \in 0..MaxEvents |->
        { env \in envs : Cardinality(EnvFails(env)) <= k }]

UploadEnvsUpTo == UpTo(UploadEnvs)
AskEnvsUpTo    == UpTo(AskEnvs)
DeleteEnvsUpTo == UpTo(DeleteEnvs)

\* an environment is admitted when every failure it holds is one the
\* request runs into
Admitted(env, out) == EnvFails(env) = out.fired

\* what a behaviour has used of MaxEvents
Uploads == nextUuid \div 3
Budget  == MaxEvents - Uploads - faults - appUuid

\* the ids the Note rows get
NoteIds == { 3 * k : k \in 1..MaxEvents }

\* the worker threads of the server, none of them serving a request
Threads == 1..MaxThreads

IdleThread ==
    [pc |-> "idle", student_id |-> << >>, file_name |-> << >>,
     extension |-> << >>, file_url |-> Nothing, extracted_text |-> << >>,
     classification |-> [subject |-> NULL, topic |-> NULL, chapter |-> NULL],
     summary |-> NULL, chunks |-> << >>, note_id |-> 0, note |-> Nothing]

NoThreads == [t \in Threads |-> IdleThread]

\* no call of chunk_text is being stepped
NoCall ==
    [text |-> << >>, chunk_size |-> ChunkSize, overlap |-> Overlap,
     pc |-> "none", start |-> 0, chunks |-> << >>, iter |-> 0, calls |-> 0,
     first |-> << >>]

\* no call of extract_text is being followed
NoExtract ==
    [pc |-> "none", file_bytes |-> CorruptBytes, file_type |-> << >>,
     lib |-> "ok", raised |-> FALSE, text |-> << >>]

\* a worker thread that serves no registration
IdleReg ==
    [pc |-> "idle", email |-> NULL, password |-> NULL, college_id |-> NULL,
     status |-> 0, detail |-> NULL, user_id |-> 0]

NoRegs == [t \in Threads |-> IdleReg]

\* a login request not made yet
NoLogin ==
    [pc |-> "idle", email |-> NULL, password |-> NULL, known |-> FALSE,
     status |-> 0, detail |-> NULL, token |-> Nothing]

NoLogins == [k \in 1..2 |-> NoLogin]

\* no call of add_to_collection is being followed
NoMetadataCall ==
    [pc |-> "none", heap |-> << >>, metadata |-> 0, n |-> 0,
     metadatas |-> << >>, stored |-> << >>, given |-> << >>,
     dict_changed |-> FALSE, updated |-> {}]

\* the state of the other components after construction
RestInit ==
    /\ md = NoMetadataCall
    /\ ex = NoExtract
    /\ applications = {}
    /\ appUuid = 0
    /\ users = {}
    /\ regs = NoRegs
    /\ logins = NoLogins

AuthUnchanged == UNCHANGED <<users, regs, logins>>

CareerUnchanged == UNCHANGED <<applications, appUuid>>

\* ----------------------------------------------------------- the machine
Init ==
    /\ notes = {}
    /\ chroma = << >>
    /\ blobs = {}
    /\ nextUuid = 0
    /\ faults = 0
    /\ resp = BaseOutcome
    /\ origin = {}
    /\ deleted = {}
    /\ idA = << >> /\ idB = << >>
    /\ nameA = << >> /\ nameB = << >>
    /\ ck = NoCall
    /\ threads = NoThreads
    /\ RestInit

NamingUnchanged ==
    /\ UNCHANGED <<idA, idB, nameA, nameB, ck, threads, ex, md>>
    /\ AuthUnchanged

\* requests are served one at a time
Idle == resp = BaseOutcome

\* POST /api/notes/upload
Upload ==
    \E s \in Students, f \in Files, env \in UploadEnvsUpTo[Budget] :
        LET r == upload_note(notes, chroma, blobs, s, f, "student",
                             nextUuid, env)
        IN  /\ Idle
            /\ Admitted(env, r.out)
            /\ r.out.status # 400 => Cardinality(r.out.fired) + 1 <= Budget
            /\ notes' = r.db
            /\ chroma' = r.store
            /\ blobs' = r.blobs
            /\ nextUuid' = IF r.out.status = 400 THEN nextUuid
                           ELSE nextUuid + 3
            /\ faults' = faults + Cardinality(r.out.fired)
            /\ resp' = r.out
            /\ origin' = IF r.out.chroma_id = 0 THEN origin
                         ELSE origin \cup
                              { [cid |-> r.out.chroma_id, student |-> s,
                                 n |-> r.out.nchunks,
                                 note |-> IF r.out.status = 201
                                          THEN r.out.note[1].id ELSE 0] }
            /\ UNCHANGED deleted
            /\ NamingUnchanged
            /\ CareerUnchanged

\* POST /api/notes/ask
Ask ==
    \E s \in Students, q \in Questions, sf \in SubjectFilters,
       env \in AskEnvsUpTo[Budget] :
        LET r == ask_question(chroma, s, q, sf, env)
        IN  /\ Idle
            /\ Admitted(env, r.out)
            /\ chroma' = r.store
            /\ faults' = faults + Cardinality(r.out.fired)
            /\ resp' = r.out
            /\ UNCHANGED <<notes, blobs, nextUuid, origin, deleted>>
            /\ NamingUnchanged
            /\ CareerUnchanged

\* DELETE /api/notes/{note_id}
Delete ==
    \E s \in Students, note_id \in NoteIds,
       env \in DeleteEnvsUpTo[Budget] :
        LET r == delete_note(notes, chroma, s, note_id, env)
        IN  /\ Idle
            /\ Admitted(env, r.out)
            /\ notes' = r.db
            /\ chroma' = r.store
            /\ faults' = faults + Cardinality(r.out.fired)
            /\ resp' = r.out
            /\ deleted' = IF r.out.status = 200
                          THEN deleted \cup {[id |-> note_id, student |-> s]}
                          ELSE deleted
            /\ UNCHANGED <<blobs, nextUuid, origin>>
            /\ NamingUnchanged
            /\ CareerUnchanged

\* GET /api/notes/
List ==
    \E s \in Students, subject \in ListSubjects :
        /\ Idle
        /\ resp' = list_notes(notes, s, subject).out
        /\ UNCHANGED <<notes, chroma, blobs, nextUuid, faults, origin,
                       deleted>>
        /\ NamingUnchanged
        /\ CareerUnchanged

\* the response leaves; the server is idle again
Respond ==
    /\ ~Idle
    /\ resp' = BaseOutcome
    /\ UNCHANGED <<notes, chroma, blobs, nextUuid, faults, origin, deleted>>
    /\ NamingUnchanged
    /\ CareerUnchanged

Next == Upload \/ Ask \/ Delete \/ List \/ Respond

Spec == Init /\ [][Next]_vars

\* ------------------------------------------- the collection-name mapping
\* get_or_create_collection applied to two identifiers of any form
IdChars == { "a", "-", "_" }

Ids == UNION { [1..n -> IdChars] : n \in 0..MaxIdLen }

InitNaming ==
    /\ notes = {}
    /\ chroma = << >>
    /\ blobs = {}
    /\ nextUuid = 0
    /\ faults = 0
    /\ resp = BaseOutcome
    /\ origin = {}
    /\ deleted = {}
    /\ idA \in Ids /\ idB \in Ids
    /\ nameA = << >> /\ nameB = << >>
    /\ ck = NoCall
    /\ threads = NoThreads
    /\ RestInit

Resolve ==
    /\ nameA = << >>
    /\ LET a == get_or_create_collection(chroma, idA)
           b == get_or_create_collection(a.store, idB)
       IN  /\ nameA' = a.name
           /\ nameB' = b.name
           /\ chroma' = b.store
    /\ UNCHANGED <<notes, blobs, nextUuid, faults, resp, origin, deleted,
                   idA, idB, ck, threads, ex, md>>
    /\ CareerUnchanged
    /\ AuthUnchanged

NextNaming == Resolve

SpecNaming == InitNaming /\ [][NextNaming]_vars

\* ------------------------------------------- chunk_text, step by step
\* chunk_text called twice in a row on the same arguments, one statement
\* at a time.  ck.pc: "call" (line 82), "while" (line 88), "done" (the
\* call returned); ck.iter counts the passes through the loop body;
\* ck.calls the calls that returned; ck.first what the first one returned.
RECURSIVE Encode(_)
Encode(raw) ==
    IF raw = << >> THEN << >>
    ELSE Concat(<<Run(raw[1], 1)>>, Encode(Tail(raw)))

ChunkTexts ==
    { Encode(raw) : raw \in UNION { [1..n -> {"x", " "}] :
                                      n \in 0..MaxTextLen } }

OthersUnchanged ==
    /\ UNCHANGED <<notes, chroma, blobs, nextUuid, faults, resp, origin,
                   deleted, idA, idB, nameA, nameB, threads, ex, md>>
    /\ CareerUnchanged
    /\ AuthUnchanged

InitChunk ==
    /\ notes = {}
    /\ chroma = << >>
    /\ blobs = {}
    /\ nextUuid = 0
    /\ faults = 0
    /\ resp = BaseOutcome
    /\ origin = {}
    /\ deleted = {}
    /\ idA = << >> /\ idB = << >>
    /\ nameA = << >> /\ nameB = << >>
    /\ threads = NoThreads
    /\ RestInit
    /\ \E t \in ChunkTexts, cs \in 1..MaxChunkSize, ov \in 0..MaxChunkSize :
          ck = [NoCall EXCEPT !.text = t, !.chunk_size = cs, !.overlap = ov,
                              !.pc = "call"]

\* lines 82-86: the empty text returns at once, else the locals are set
ChunkEnter ==
    /\ ck.pc = "call"
    /\ ck' = IF ck.text = << >>
             THEN [ck EXCEPT !.pc = "done", !.chunks = << >>,
                             !.calls = @ + 1,
                             !.first = IF ck.calls = 0 THEN << >> ELSE @]
             ELSE LET e == chunk_entry(ck.chunks)
                  IN  [ck EXCEPT !.pc = "while", !.start = e.start,
                                 !.chunks = e.chunks, !.iter = 0]
    /\ OthersUnchanged

\* lines 88-95: one pass through the loop body.  A call that never leaves
\* the loop is followed for one pass more than the text has characters.
ChunkIterate ==
    /\ ck.pc = "while"
    /\ ck.start < TextLen(ck.text)
    /\ ck.iter <= TextLen(ck.text)
    /\ LET it == chunk_iteration(ck.text, ck.chunk_size, ck.overlap,
                                 ck.start, ck.chunks)
       IN  ck' = [ck EXCEPT !.start = it.start, !.chunks = it.chunks,
                            !.iter = @ + 1]
    /\ OthersUnchanged

\* line 97
ChunkReturn ==
    /\ ck.pc = "while"
    /\ ~(ck.start < TextLen(ck.text))
    /\ ck' = [ck EXCEPT !.pc = "done", !.calls = @ + 1,
                        !.first = IF ck.calls = 0 THEN ck.chunks ELSE @]
    /\ OthersUnchanged

\* the caller calls again with the same arguments
ChunkAgain ==
    /\ ck.pc = "done"
    /\ ck.calls < 2
    /\ ck' = [ck EXCEPT !.pc = "call"]
    /\ OthersUnchanged

NextChunk == ChunkEnter \/ ChunkIterate \/ ChunkReturn \/ ChunkAgain

SpecChunk == InitChunk /\ [][NextChunk]_vars

\* ------------------------------------------------- concurrent uploads
\* upload_note served by several worker threads at once (the route is a
\* plain def, which the server runs in a thread pool).  A thread takes one
\* step per access to a store shared with the others; the statements
\* between two accesses touch only its locals and go with the access
\* before them.  The collaborators work.  pc: "idle", "index" (at line
\* 199), "add" (at chroma_service line 55), "persist" (at line 212),
\* "done", "rejected" (400).
ThreadsOnly ==
    /\ UNCHANGED <<faults, resp, origin, deleted, idA, idB, nameA, nameB,
                   ck, ex, md>>
    /\ CareerUnchanged
    /\ AuthUnchanged

\* lines 158-196: read, check the extension, store the file, extract,
\* classify, summarize, chunk
T_Begin(t) ==
    \E s \in Students, f \in Files :
        LET extension == LowerAll(LastPart(f.name))
            up        == upload_to_cloudinary(f.name, s, nextUuid + 1, "ok")
            text      == extract_text(f.bytes, extension, "ok").text
            has_text  == should_process(text)
            chunks    == IF has_text
                         THEN chunk_text(text, ChunkSize, Overlap)
                         ELSE << >>
        IN  /\ threads[t].pc = "idle"
            /\ IF extension \notin allowed_types
               THEN /\ threads' = [threads EXCEPT ![t] =
                          [@ EXCEPT !.pc = "rejected", !.student_id = s,
                                    !.file_name = f.name,
                                    !.extension = extension]]
                    /\ UNCHANGED <<blobs, nextUuid>>
               ELSE /\ blobs' = blobs \cup {up.url}
                    /\ nextUuid' = nextUuid + 1
                    /\ threads' = [threads EXCEPT ![t] =
                          [@ EXCEPT
                             !.pc = IF has_text /\ chunks # << >>
                                    THEN "index" ELSE "persist",
                             !.student_id = s,
                             !.file_name = f.name,
                             !.extension = extension,
                             !.file_url = Some(up.url),
                             !.extracted_text = text,
                             !.classification =
                                 IF has_text
                                 THEN classify_note(text,
                                          Gen("ok", ClassifyAnswer(text)))
                                 ELSE @,
                             !.summary =
                                 IF has_text
                                 THEN summarize_note(text,
                                          Gen("ok", SummaryAnswer))
                                 ELSE @,
                             !.chunks = chunks]]
            /\ UNCHANGED <<notes, chroma>>
            /\ ThreadsOnly

\* line 201 and chroma_service lines 52: the note_id is drawn and the
\* collection is resolved, created if it does not exist
T_Resolve(t) ==
    LET th == threads[t]
        c  == get_or_create_collection(chroma, th.student_id)
    IN  /\ th.pc = "index"
        /\ nextUuid' = nextUuid + 1
        /\ chroma' = c.store
        /\ threads' = [threads EXCEPT ![t] =
              [@ EXCEPT !.pc = "add",
                        !.note_id = chunk_note_id(nextUuid + 1,
                                                  th.file_name)]]
        /\ UNCHANGED <<notes, blobs>>
        /\ ThreadsOnly

\* chroma_service lines 55-64: collection.add
T_Add(t) ==
    LET th   == threads[t]
        name == collection_name(th.student_id)
    IN  /\ th.pc = "add"
        /\ chroma' = [chroma EXCEPT ![name] =
              collection_add(@, th.note_id, th.chunks,
                  chunk_metadata(th.classification, th.file_name,
                                 "student"))]
        /\ threads' = [threads EXCEPT ![t] = [@ EXCEPT !.pc = "persist"]]
        /\ UNCHANGED <<notes, blobs, nextUuid>>
        /\ ThreadsOnly

\* lines 212-228: the row gets its own uuid4() and is committed
T_Persist(t) ==
    LET th   == threads[t]
        note == new_note(nextUuid + 1, th.student_id, th.classification,
                         th.file_url[1], th.file_name, th.extension,
                         th.extracted_text, th.summary, "student")
    IN  /\ th.pc = "persist"
        /\ nextUuid' = nextUuid + 1
        /\ notes' = notes \cup {note}
        /\ threads' = [threads EXCEPT ![t] =
              [@ EXCEPT !.pc = "done", !.note = Some(note)]]
        /\ UNCHANGED <<chroma, blobs>>
        /\ ThreadsOnly

Begin   == \E t \in Threads : T_Begin(t)
Index   == \E t \in Threads : T_Resolve(t)
Add     == \E t \in Threads : T_Add(t)
Persist == \E t \in Threads : T_Persist(t)

NextConcurrent == Begin \/ Index \/ Add \/ Persist

SpecConcurrent == Init /\ [][NextConcurrent]_vars

\* ---------------------------------------------------- extract_text alone
\* extract_text called on any bytes under any declared type
DeclaredTypes ==
    allowed_types \cup { <<"t","x","t">>, <<"e","x","e">>, << >> }

ExtractBytes ==
    { PdfBytes(<<t>>) : t \in ChunkTexts }
    \cup { PdfBytes(<<t, <<Run("x", 1)>>>>) : t \in ChunkTexts }
    \cup { ImageBytes(t) : t \in ChunkTexts }
    \cup { CorruptBytes }

InitExtract ==
    /\ notes = {}
    /\ chroma = << >>
    /\ blobs = {}
    /\ nextUuid = 0
    /\ faults = 0
    /\ resp = BaseOutcome
    /\ origin = {}
    /\ deleted = {}
    /\ idA = << >> /\ idB = << >>
    /\ nameA = << >> /\ nameB = << >>
    /\ ck = NoCall
    /\ threads = NoThreads
    /\ applications = {}
    /\ appUuid = 0
    /\ users = {}
    /\ regs = NoRegs
    /\ logins = NoLogins
    /\ md = NoMetadataCall
    /\ \E b \in ExtractBytes, ft \in DeclaredTypes, l \in Outcomes :
          ex = [NoExtract EXCEPT !.pc = "call", !.file_bytes = b,
                                 !.file_type = ft, !.lib = l]

\* lines 55-62
Extract ==
    /\ ex.pc = "call"
    /\ LET r == extract_text(ex.file_bytes, ex.file_type, ex.lib)
       IN  ex' = [ex EXCEPT !.pc = "done", !.raised = r.raised,
                            !.text = r.text]
    /\ UNCHANGED <<notes, chroma, blobs, nextUuid, faults, resp, origin,
                   deleted, idA, idB, nameA, nameB, ck, threads, md>>
    /\ CareerUnchanged
    /\ AuthUnchanged

NextExtract == Extract

SpecExtract == InitExtract /\ [][NextExtract]_vars

\* ------------------------------------------ the metadata of the chunks
\* add_to_collection followed through the heap.  A dict is an object: the
\* caller holds a reference (md.metadata) into md.heap, and line 58 puts
\* that one reference in the list once per chunk.  The collection is kept
\* by a PersistentClient, on disk: what it holds for a chunk is either a
\* value of its own (ref = 0) or, were it to keep the object, a reference.
\* pc: "call" (line 52), "list" (line 58 done), "returned".
MetadataInputs ==
    { chunk_metadata([subject |-> sj, topic |-> tp, chapter |-> NULL],
                     <<"a", ".", "p", "d", "f">>, "student") :
          sj \in { NULL, "DBMS" }, tp \in { NULL, "Paging" } }

\* the metadata a reader of the collection gets for a stored chunk
read_metadata(heap, entry) ==
    IF entry.ref = 0 THEN entry.value ELSE heap[entry.ref]

persist_metadatas_by_reference(heap, refs) ==
    [i \in 1..Len(refs) |-> [ref |-> refs[i], value |-> heap[refs[i]]]]

\* collection.add(..., metadatas=metadatas) of a persistent collection:
\* each record gets the content of its dict written out
persist_metadatas(heap, refs) ==
    [i \in 1..Len(refs) |-> [ref |-> 0, value |-> heap[refs[i]]]]

\* a write to the metadata of the chunk at index i
write_metadata(heap, stored, i, new) ==
    IF stored[i].ref = 0
    THEN [heap |-> heap, stored |-> [stored EXCEPT ![i].value = new]]
    ELSE [heap |-> [heap EXCEPT ![stored[i].ref] = new], stored |-> stored]

InitMetadata ==
    /\ notes = {}
    /\ chroma = << >>
    /\ blobs = {}
    /\ nextUuid = 0
    /\ faults = 0
    /\ resp = BaseOutcome
    /\ origin = {}
    /\ deleted = {}
    /\ idA = << >> /\ idB = << >>
    /\ nameA = << >> /\ nameB = << >>
    /\ ck = NoCall
    /\ threads = NoThreads
    /\ ex = NoExtract
    /\ applications = {}
    /\ appUuid = 0
    /\ users = {}
    /\ regs = NoRegs
    /\ logins = NoLogins
    /\ \E m \in MetadataInputs, n \in 1..MaxChunks :
          md = [NoMetadataCall EXCEPT !.pc = "call", !.heap = <<m>>,
                                      !.metadata = 1, !.n = n, !.given = m]

MetadataFrame ==
    /\ UNCHANGED <<notes, chroma, blobs, nextUuid, faults, resp, origin,
                   deleted, idA, idB, nameA, nameB, ck, threads, ex>>
    /\ CareerUnchanged
    /\ AuthUnchanged

\* line 58: metadatas = [metadata for _ in chunks]
M_List ==
    /\ md.pc = "call"
    /\ md' = [md EXCEPT !.pc = "list",
                        !.metadatas = [i \in 1..md.n |-> md.metadata]]
    /\ MetadataFrame

\* lines 60-64: collection.add, and the return
M_Add ==
    /\ md.pc = "list"
    /\ md' = [md EXCEPT !.pc = "returned", !.metadatas = << >>,
                        !.stored = persist_metadatas(md.heap, md.metadatas)]
    /\ MetadataFrame

\* after the call its caller changes the dict it passed
M_ChangeDict ==
    /\ md.pc = "returned"
    /\ ~md.dict_changed
    /\ md' = [md EXCEPT !.heap[md.metadata].subject = "OS",
                        !.dict_changed = TRUE]
    /\ MetadataFrame

\* after the call the metadata of one of the chunks is rewritten
M_ChangeChunk ==
    /\ md.pc = "returned"
    /\ \E i \in 1..md.n :
          /\ i \notin md.updated
          /\ LET old == read_metadata(md.heap, md.stored[i])
                 w   == write_metadata(md.heap, md.stored, i,
                                       [old EXCEPT !.topic = "Rewritten"])
             IN  md' = [md EXCEPT !.heap = w.heap, !.stored = w.stored,
                                  !.updated = @ \cup {i}]
    /\ MetadataFrame

NextMetadata == M_List \/ M_Add \/ M_ChangeDict \/ M_ChangeChunk

SpecMetadata == InitMetadata /\ [][NextMetadata]_vars

\* ------------------------------------------------ job application tracker
\* JobApplicationCreate without a job description, JobApplicationUpdate
ApplicationData ==
    { [company |-> "acme", role |-> "dev", job_description |-> NULL,
       resume_version_url |-> NULL, notes |-> NULL] }

ApplicationUpdates == [status : { NULL, "interview" },
                       notes  : { NULL, "called" }]

\* the ids a caller may name: the ones drawn and one never drawn
ApplicationIds == 1..(MaxEvents + 1)

add_job_application(db, student_id, data, uid) ==
    LET match_score == NULL
        application ==
            [id |-> uid, student_id |-> student_id,
             company |-> data.company, role |-> data.role,
             job_description |-> data.job_description,
             resume_version_url |-> data.resume_version_url,
             match_score |-> match_score, notes |-> data.notes,
             status |-> "applied"]
    IN  [out |-> [BaseOutcome EXCEPT !.op = "add_application",
                    !.student = student_id, !.status = 201,
                    !.application_id = uid,
                    !.application = Some(application)],
         db  |-> db \cup {application}]

find_application_any_owner(db, application_id, student_id) ==
    { a \in db : a.id = application_id }

\* db.query(JobApplication).filter(id == application_id,
\*                                 student_id == student_id)
find_application(db, application_id, student_id) ==
    { a \in db : a.id = application_id /\ a.student_id = student_id }

update_application_status(db, application_id, student_id, data) ==
    LET base  == [BaseOutcome EXCEPT !.op = "update_application",
                    !.student = student_id,
                    !.application_id = application_id]
        found == find_application(db, application_id, student_id)
    IN
    IF found = {}
    THEN [out |-> [base EXCEPT !.status = 404], db |-> db]
    ELSE
    LET app  == CHOOSE a \in found : TRUE
        app1 == IF data.status # NULL
                THEN [app EXCEPT !.status = data.status] ELSE app
        app2 == IF data.notes # NULL
                THEN [app1 EXCEPT !.notes = data.notes] ELSE app1
    IN  [out |-> [base EXCEPT !.status = 200, !.found = TRUE,
                    !.application = Some(app2)],
         db  |-> (db \ {app}) \cup {app2}]

delete_application(db, application_id, student_id) ==
    LET base  == [BaseOutcome EXCEPT !.op = "delete_application",
                    !.student = student_id,
                    !.application_id = application_id]
        found == find_application(db, application_id, student_id)
    IN
    IF found = {}
    THEN [out |-> [base EXCEPT !.status = 404], db |-> db]
    ELSE [out |-> [base EXCEPT !.status = 200, !.found = TRUE],
          db  |-> db \ found]

\* what a job-application request leaves alone
CareerFrame ==
    /\ UNCHANGED <<notes, chroma, blobs, nextUuid, faults, origin, deleted>>
    /\ NamingUnchanged

\* POST /api/career/applications
AddApplication ==
    \E s \in Students, data \in ApplicationData :
        LET r == add_job_application(applications, s, data, appUuid + 1)
        IN  /\ Idle
            /\ Budget >= 1
            /\ applications' = r.db
            /\ appUuid' = appUuid + 1
            /\ resp' = r.out
            /\ CareerFrame

\* PUT /api/career/applications/{application_id}
UpdateApplication ==
    \E s \in Students, id \in ApplicationIds, data \in ApplicationUpdates :
        LET r == update_application_status(applications, id, s, data)
        IN  /\ Idle
            /\ applications' = r.db
            /\ resp' = r.out
            /\ UNCHANGED appUuid
            /\ CareerFrame

\* DELETE /api/career/applications/{application_id}
DeleteApplication ==
    \E s \in Students, id \in ApplicationIds :
        LET r == delete_application(applications, id, s)
        IN  /\ Idle
            /\ applications' = r.db
            /\ resp' = r.out
            /\ UNCHANGED appUuid
            /\ CareerFrame

NextCareer ==
    \/ Upload \/ Delete \/ Respond
    \/ AddApplication \/ UpdateApplication \/ DeleteApplication

SpecCareer == Init /\ [][NextCareer]_vars

\* ------------------------------------------------------ register and login
\* the rows of the colleges table
Colleges == { "c-1" }

RegisterRequests ==
    { [email |-> "a@x.in", password |-> "p", college_id |-> NULL],
      [email |-> "a@x.in", password |-> "p", college_id |-> "c-0"],
      [email |-> "b@x.in", password |-> "q", college_id |-> "c-1"] }

\* c@x.in never registers
LoginRequests == [email : { "a@x.in", "c@x.in" }, password : { "p", "q" }]

\* pwd_context.hash / pwd_context.verify: a hash verifies exactly the
\* password it was made from, and no hash (the column is nullable)
\* verifies none
hash_password(plain_password) == [scheme |-> "bcrypt", of |-> plain_password]

verify_password(plain_password, hashed_password) ==
    /\ hashed_password # Nothing
    /\ hashed_password[1].of = plain_password

get_user_by_email(db, email) == { u \in db : u.email = email }

insert_user_no_unique(db, new_user) ==
    [raised |-> FALSE, db |-> db \cup {new_user}]

\* db.add(new_user); db.commit() against the unique index on users.email
insert_user(db, new_user) ==
    IF \E u \in db : u.email = new_user.email
    THEN [raised |-> TRUE, db |-> db]
    ELSE [raised |-> FALSE, db |-> db \cup {new_user}]

login_user_telling(db, email, password) ==
    LET found == get_user_by_email(db, email)
    IN
    IF found = {}
    THEN [status |-> 404, detail |-> "No account with this email.",
          token |-> Nothing]
    ELSE
    LET user == CHOOSE u \in found : TRUE
    IN  IF ~verify_password(password, user.hashed_password)
        THEN [status |-> 401, detail |-> "Invalid email or password.",
              token |-> Nothing]
        ELSE [status |-> 200, detail |-> NULL,
              token |-> Some([sub |-> user.id])]

login_user(db, email, password) ==
    LET found == get_user_by_email(db, email)
    IN
    IF found = {}
    THEN [status |-> 401, detail |-> "Invalid email or password.",
          token |-> Nothing]
    ELSE
    LET user == CHOOSE u \in found : TRUE
    IN  IF ~verify_password(password, user.hashed_password)
        THEN [status |-> 401, detail |-> "Invalid email or password.",
              token |-> Nothing]
        ELSE [status |-> 200, detail |-> NULL,
              token |-> Some([sub |-> user.id])]

\* what a request to /api/auth leaves alone
AuthFrame ==
    /\ UNCHANGED <<notes, chroma, blobs, nextUuid, faults, resp, origin,
                   deleted, idA, idB, nameA, nameB, ck, threads, ex, md>>
    /\ CareerUnchanged

\* register_user lines 109-131: the email check, the college check, the
\* hash.  Every request has a session of its own, and the check reads
\* what is committed.
R_Check(t) ==
    /\ regs[t].pc = "idle"
    /\ \E rq \in RegisterRequests :
          LET mine == [regs[t] EXCEPT !.email = rq.email,
                                      !.password = rq.password,
                                      !.college_id = rq.college_id]
          IN  regs' = [regs EXCEPT ![t] =
                  IF get_user_by_email(users, rq.email) # {}
                  THEN [mine EXCEPT !.pc = "done", !.status = 400,
                          !.detail =
                              "An account with this email already exists."]
                  ELSE IF rq.college_id # NULL
                          /\ rq.college_id \notin Colleges
                  THEN [mine EXCEPT !.pc = "done", !.status = 400,
                          !.detail = "College not found."]
                  ELSE [mine EXCEPT !.pc = "commit"]]
    /\ UNCHANGED <<users, logins>>
    /\ AuthFrame

\* lines 134-148: the row, db.add, db.commit (an IntegrityError of the
\* commit is not caught: 500), db.refresh
R_Commit(t) ==
    /\ regs[t].pc = "commit"
    /\ LET new_user == [id |-> t, email |-> regs[t].email,
                        hashed_password |->
                            Some(hash_password(regs[t].password)),
                        college_id |-> regs[t].college_id]
           r == insert_user(users, new_user)
       IN  /\ users' = r.db
           /\ regs' = [regs EXCEPT ![t] =
                  IF r.raised
                  THEN [@ EXCEPT !.pc = "done", !.status = 500]
                  ELSE [@ EXCEPT !.pc = "done", !.status = 201,
                                 !.user_id = new_user.id]]
    /\ UNCHANGED logins
    /\ AuthFrame

\* POST /api/auth/login; known: was there an account for the email
Login ==
    \E k \in 1..2, rq \in LoginRequests :
        /\ logins[k].pc = "idle"
        /\ LET r == login_user(users, rq.email, rq.password)
           IN  logins' = [logins EXCEPT ![k] =
                   [pc |-> "done", email |-> rq.email,
                    password |-> rq.password,
                    known |-> get_user_by_email(users, rq.email) # {},
                    status |-> r.status, detail |-> r.detail,
                    token |-> r.token]]
        /\ UNCHANGED <<users, regs>>
        /\ AuthFrame

Register == \E t \in Threads : R_Check(t)
Commit   == \E t \in Threads : R_Commit(t)

NextAuth == Register \/ Commit \/ Login

SpecAuth == Init /\ [][NextAuth]_vars

\* ---------------------------------------------------------------- claims
\* the chunks in the collection of a student
CollectionOf(store, student_id) ==
    IF collection_name(student_id) \in DOMAIN store
    THEN store[collection_name(student_id)] ELSE {}

\* the uploads that indexed a chunk
UploadsOf(chunk) == { o \in origin : o.cid = chunk.id[1] }

\* the chunks of an indexing upload are all in its student's collection
Present(o) ==
    \A i \in 0..(o.n - 1) :
        <<o.cid, i>> \in ChunkIds(CollectionOf(chroma, o.student))

Retrieved(out) == { out.retrieved[i] : i \in 1..Len(out.retrieved) }

C2_ChunkTaggedWithNoteId ==
    (resp.op = "upload" /\ resp.status = 201 /\ resp.text # << >>) =>
        \E c \in CollectionOf(chroma, resp.student) :
            /\ "note_id" \in DOMAIN c.metadata
            /\ c.metadata.note_id = resp.note[1].id

C4_NameCollisionFree ==
    (nameA # << >> /\ idA # idB) => nameA # nameB

\* C5: when the search of ask_question returns no chunk (the collection is
\* empty, or nothing matches), the answer is the fixed not-found message,
\* the sources are empty and generate_content is not called.
C5_EmptyRetrievalNotFound ==
    (/\ resp.op = "ask" /\ resp.searched
     /\ (CollectionOf(chroma, resp.student) = {} \/ resp.retrieved = << >>))
    => /\ resp.status = 200
       /\ resp.answer = NotFoundAnswer
       /\ resp.sources = << >>
       /\ resp.genCalls = 0

\* a question answered for a student whose collection is empty while the
\* other student has chunks
C5_Witness ==
    /\ resp.op = "ask" /\ resp.searched
    /\ CollectionOf(chroma, resp.student) = {}
    /\ \E s \in Students : CollectionOf(chroma, s) # {}

\* C6: when generate_content raises while answering with non-empty
\* context, ask_question returns normally with the fixed apology.
C6_GenerationFailureApology ==
    (resp.op = "ask" /\ resp.retrieved # << >> /\ "gen" \in resp.fired)
    => (resp.status = 200 /\ resp.answer = ApologyAnswer)

C6_Witness ==
    resp.op = "ask" /\ resp.retrieved # << >> /\ "gen" \in resp.fired

\* C7: on a vector-store error, in resolving the collection or in the
\* query, ask_question still returns, with the not-found answer.
C7_SearchErrorDegrades ==
    (resp.op = "ask" /\ resp.fired \cap {"coll", "op"} # {})
    => /\ resp.status = 200
       /\ resp.retrieved = << >>
       /\ resp.answer = NotFoundAnswer

SupportedExtensions ==
    { <<"p","d","f">>, <<"j","p","g">>, <<"j","p","e","g">>,
      <<"p","n","g">>, <<"b","m","p">>, <<"t","i","f","f">> }

\* C9: every upload with an allowed extension returns 201 and adds exactly
\* one Note, the one it returns, whatever the blob store, the extractor,
\* the classifier, the summarizer and the vector store do (the relational
\* store working).
C9_OnlyValidationRejects ==
    [][ (/\ resp'.op = "upload" /\ resp'.extension \in SupportedExtensions
         /\ "commit" \notin resp'.fired)
        => /\ resp'.status = 201
           /\ resp'.note # Nothing
           /\ resp'.note[1] \notin notes
           /\ notes' = notes \cup {resp'.note[1]}
      ]_vars

\* C10: an upload whose extension is not pdf, jpg, jpeg, png, bmp or tiff
\* is answered 400 after reading the file only, and no store changes.
C10_UnsupportedTypeRejectedFirst ==
    [][ (resp'.op = "upload" /\ resp'.extension \notin SupportedExtensions)
        => /\ resp'.status = 400
           /\ resp'.trace = <<"read">>
           /\ resp'.genCalls = 0
           /\ resp'.note = Nothing
           /\ notes' = notes /\ chroma' = chroma /\ blobs' = blobs
      ]_vars

\* an .exe upload was rejected while the stores hold a note and chunks
C10_Witness ==
    /\ resp.op = "upload" /\ resp.status = 400
    /\ resp.extension = <<"e","x","e">>
    /\ notes # {}
    /\ \E name \in DOMAIN chroma : chroma[name] # {}

\* C11: the Note an upload persists has null subject, topic, chapter and
\* summary when the extracted text is empty, null subject, topic and chapter
\* when the classification call fails, and a null summary when the
\* summarization call fails.
C11_ClassifiedDegradesToNull ==
    (resp.op = "upload" /\ resp.status = 201) =>
        LET n == resp.note[1]
        IN  /\ (resp.text = << >> \/ "classify" \in resp.fired) =>
                  (n.subject = NULL /\ n.topic = NULL /\ n.chapter = NULL)
            /\ (resp.text = << >> \/ "summarize" \in resp.fired) =>
                  n.summary = NULL

\* C13: every persisted Note has a file_url under which the blob store
\* holds the file.
C13_NoteUrlRefersToStoredFile ==
    \A n \in notes : n.file_url \in blobs

\* the Notes that exist for an indexing upload
NotesOf(o) == { n \in notes : n.id = o.note /\ n.student_id = o.student }

\* C14: every chunk in a collection was indexed by an upload whose Note is
\* in the relational store, and a deleted Note has neither a row nor chunks.
C14_NoOrphanedVectors ==
    /\ \A name \in DOMAIN chroma : \A c \in chroma[name] :
          \E o \in UploadsOf(c) : NotesOf(o) # {}
    /\ \A d \in deleted :
          /\ ~\E n \in notes : n.id = d.id
          /\ \A o \in origin : o.note = d.id =>
                \A i \in 0..(o.n - 1) :
                    <<o.cid, i>> \notin ChunkIds(CollectionOf(chroma, o.student))

\* C12: an upload of an accepted file on which the extractor fails returns
\* 201 with a Note of null subject, topic and summary that is in the
\* relational store (the store working), and a listing of a student's
\* notes returns every such Note the store holds for the student.
C12_ExtractorFailureStillPersists ==
    /\ (/\ resp.op = "upload" /\ resp.extension \in SupportedExtensions
        /\ "lib" \in resp.fired /\ "commit" \notin resp.fired)
       => /\ resp.status = 201
          /\ resp.note # Nothing
          /\ resp.note[1].subject = NULL
          /\ resp.note[1].topic = NULL
          /\ resp.note[1].summary = NULL
          /\ resp.note[1] \in notes
    /\ (resp.op = "list" /\ resp.subject_filter = NULL)
       => \A n \in notes :
              (n.student_id = resp.student /\ n.extracted_text = Nothing)
              => InSeq(n, resp.listed)

\* a listing returned the Note of an upload on which the extractor failed
C12_Witness ==
    /\ resp.op = "list" /\ resp.subject_filter = NULL
    /\ faults > 0
    /\ \E i \in 1..Len(resp.listed) :
          /\ resp.listed[i].extracted_text = Nothing
          /\ resp.listed[i].subject = NULL
          /\ resp.listed[i].summary = NULL

\* the windows of a text: window i (from 0) is text[i*step : i*step + size]
\* for every i with i*step < len(text)
Windows(text, chunk_size, overlap) ==
    LET step  == chunk_size - overlap
        count == (TextLen(text) + step - 1) \div step
    IN  [i \in 1..count |->
            [start |-> (i - 1) * step,
             chars |-> Take(Drop(text, (i - 1) * step), chunk_size)]]

NonBlank(chars) == \E i \in 1..Len(chars) : chars[i].c \notin Whitespace

RECURSIVE Kept(_)
Kept(windows) ==
    IF windows = << >> THEN << >>
    ELSE (IF NonBlank(windows[1].chars) THEN <<windows[1].chars>>
          ELSE << >>) \o Kept(Tail(windows))

C16_LoopAdvances ==
    [][ (ck.pc = "while" /\ ck'.pc = "while" /\ ck'.iter = ck.iter + 1)
        => ck'.start > ck.start ]_vars

\* C17: for chunk_size > overlap >= 0, a second call of chunk_text on the
\* same arguments returns what the first returned, and the empty text
\* gives the empty sequence.
C17_Deterministic ==
    /\ (ck.pc = "done" /\ ck.calls = 2 /\ ck.chunk_size > ck.overlap)
       => ck.chunks = ck.first
    /\ (ck.pc = "done" /\ ck.text = << >>) => ck.chunks = << >>

\* a second call returned, with two or more chunks
C17_Witness ==
    /\ ck.pc = "done" /\ ck.calls = 2 /\ ck.chunk_size > ck.overlap
    /\ Len(ck.chunks) >= 2

\* the threads whose chunks are in the collection of a student
Indexed(student_id) ==
    { t \in Threads : /\ threads[t].student_id = student_id
                      /\ threads[t].note_id # 0
                      /\ threads[t].pc \in {"persist", "done"} }

RECURSIVE ChunkTotal(_)
ChunkTotal(ts) ==
    IF ts = {} THEN 0
    ELSE LET t == CHOOSE x \in ts : TRUE
         IN  Len(threads[t].chunks) + ChunkTotal(ts \ {t})

\* C18: under every interleaving of uploads, the chunk at position i of
\* an upload is in the student's collection under the id
\* {note_id}_chunk_{i} of that upload, and no id is shared: a collection
\* holds as many chunks as the uploads added to it.
C18_ChunkIdsNeverCollide ==
    \A s \in Students :
        /\ \A t \in Indexed(s) : \A i \in 1..Len(threads[t].chunks) :
              \E c \in CollectionOf(chroma, s) :
                  /\ c.id = <<threads[t].note_id, i - 1>>
                  /\ c.document = threads[t].chunks[i]
        /\ \A c, d \in CollectionOf(chroma, s) : c.id = d.id => c = d
        /\ Cardinality(CollectionOf(chroma, s)) = ChunkTotal(Indexed(s))

\* two uploads of the same file by the same student were in add_to_collection
\* at the same time and both have added their chunks
C18_Witness ==
    \E t, u \in Threads :
        /\ t # u
        /\ threads[t].student_id = threads[u].student_id
        /\ threads[t].file_name = threads[u].file_name
        /\ threads[t].pc = "persist" /\ threads[u].pc = "persist"
        /\ threads[t].note_id # 0 /\ threads[u].note_id # 0
        /\ Len(threads[t].chunks) >= 2

\* "subject<sep>file_name" for the metadata of a retrieved chunk
Formatted(chunk, sep) ==
    Chars(chunk.metadata.subject) \o sep \o chunk.metadata.file_name

FirstIndex(q, x) ==
    CHOOSE i \in 1..Len(q) : q[i] = x /\ \A j \in 1..(i - 1) : q[j] # x

\* r is q without its repeats, in the order of first occurrence
IsDedupOf(r, q) ==
    /\ \A i, j \in 1..Len(r) : r[i] = r[j] => i = j
    /\ { r[i] : i \in 1..Len(r) } = { q[i] : i \in 1..Len(q) }
    /\ \A i, j \in 1..Len(r) :
          i < j => FirstIndex(q, r[i]) < FirstIndex(q, r[j])

\* the sources a question should return, for a separator
SourcesAre(sep) ==
    (resp.op = "ask" /\ resp.status = 200) =>
        IsDedupOf(resp.sources,
                  [i \in 1..Len(resp.retrieved) |->
                      Formatted(resp.retrieved[i], sep)])

\* C19 (as claimed): the sources are the strings "subject", space, em dash
\* (U+2014, written here by its name), space, "file_name" of the retrieved
\* chunks, repeats removed, in the order of first occurrence.
C19_SourcesEmDash == SourcesAre(<<" ", "EM DASH", " ">>)

\* C19 (amended): the same with the separator the code writes: space,
\* hyphen-minus, space.
C19_SourcesHyphen == SourcesAre(<<" ", "-", " ">>)

\* a question retrieved chunks of two notes, one of them with two chunks
C19_Witness ==
    /\ resp.op = "ask" /\ resp.status = 200
    /\ Len(resp.sources) >= 2
    /\ Len(resp.retrieved) > Len(resp.sources)

\* C20: when ask_question is given a subject filter, every retrieved chunk
\* has that subject in its metadata, and every source is the string of
\* such a chunk.
C20_SubjectFilterExcludesOthers ==
    (resp.op = "ask" /\ resp.subject_filter \notin {NULL, ""}) =>
        /\ \A c \in Retrieved(resp) :
              c.metadata.subject = resp.subject_filter
        /\ \A i \in 1..Len(resp.sources) :
              \E c \in Retrieved(resp) :
                  /\ c.metadata.subject = resp.subject_filter
                  /\ SourceString(c.metadata) = resp.sources[i]

\* a question filtered to DBMS retrieved chunks from a collection that
\* also holds OS chunks
C20_Witness ==
    /\ resp.op = "ask" /\ resp.subject_filter = "DBMS"
    /\ resp.retrieved # << >>
    /\ \E c \in CollectionOf(chroma, resp.student) : c.metadata.subject = "OS"

\* C22: a question retrieves at most 5 chunks, and they are what the
\* generation call gets as context.
C22_AtMostFiveChunks ==
    resp.op = "ask" =>
        /\ Len(resp.retrieved) <= 5
        /\ resp.retrieved = << >> => resp.genCalls = 0

\* a question got 5 chunks, and its answer from them, out of a collection
\* that holds more
C22_Witness ==
    /\ resp.op = "ask" /\ resp.status = 200
    /\ Len(resp.retrieved) = 5
    /\ resp.genCalls = 1
    /\ Cardinality(CollectionOf(chroma, resp.student)) > 5

\* C23: an accepted upload whose extracted text is empty makes no classify,
\* no summarize and no add_to_collection call and leaves the vector store
\* as it was, and (the relational store working) its Note is persisted.
C23_EmptyTextSkipsIndexing ==
    [][ (resp'.op = "upload" /\ resp'.status # 400 /\ resp'.text = << >>)
        => /\ \A i \in 1..Len(resp'.trace) :
                  resp'.trace[i] \notin {"classify", "summarize", "chunk",
                                         "chroma.add"}
           /\ resp'.genCalls = 0
           /\ chroma' = chroma
           /\ "commit" \notin resp'.fired =>
                  /\ resp'.status = 201
                  /\ resp'.note[1] \in notes' \ notes
                  /\ resp'.note[1].extracted_text = Nothing
      ]_vars

\* an upload with empty extracted text returned its Note
C23_Witness ==
    /\ resp.op = "upload" /\ resp.status = 201
    /\ resp.text = << >>
    /\ resp.note[1] \in notes

\* the place of a collaborator call in the order of the stages
StageRank(call) ==
    CASE call = "read"       -> 1
      [] call = "cloudinary" -> 2
      [] call = "extract"    -> 3
      [] call = "classify"   -> 4
      [] call = "summarize"  -> 5
      [] call = "chunk"      -> 6
      [] call = "chroma.add" -> 7
      [] call = "db.commit"  -> 8

\* C24: the calls of one upload_note are made in the order of the stages
\* (read and validate, extract, classify, index, persist), and a stage is
\* entered only after the stages before it.
C24_StagesInOrder ==
    resp.op = "upload" =>
        LET t      == resp.trace
            Has(c) == InSeq(c, t)
        IN  /\ t # << >> /\ t[1] = "read"
            /\ \A i, j \in 1..Len(t) :
                  i < j => StageRank(t[i]) < StageRank(t[j])
            /\ Has("classify") => Has("extract")
            /\ Has("summarize") => Has("classify")
            /\ Has("chroma.add") => (Has("summarize") /\ Has("chunk"))
            /\ Has("db.commit") => Has("extract")
            /\ resp.status = 400 => t = <<"read">>

\* an upload went through every stage
C24_Witness ==
    /\ resp.op = "upload" /\ resp.status = 201
    /\ Len(resp.trace) = 8

\* the documents in a student's collection under a chunk note_id, by index
DocumentsOf(student_id, cid, n) ==
    [i \in 1..n |->
        { c.document : c \in { d \in CollectionOf(chroma, student_id) :
                                 d.id = <<cid, i - 1>> } }]

\* C26: the Note stores the first 5000 characters of the extracted text
\* (null for the empty text), and the chunks indexed are the windows of
\* the whole text.
C26_StoredTextCappedIndexFull ==
    (resp.op = "upload" /\ resp.status = 201) =>
        LET n    == resp.note[1]
            text == resp.text
            w    == Kept(Windows(text, 500, 50))
        IN  /\ text = << >> => n.extracted_text = Nothing
            /\ text # << >> =>
                  /\ n.extracted_text # Nothing
                  /\ TextLen(n.extracted_text[1]) = Min(5000, TextLen(text))
                  /\ Concat(n.extracted_text[1],
                            Drop(text, TextLen(n.extracted_text[1]))) = text
                  /\ resp.nchunks = Len(w)
                  /\ DocumentsOf(resp.student, resp.chroma_id, Len(w))
                         = [i \in 1..Len(w) |-> {w[i]}]

\* a question retrieved a chunk that lies beyond the 5000 characters the
\* Note of its upload stores
C26_Witness ==
    /\ resp.op = "ask"
    /\ \E c \in Retrieved(resp) : c.document = Drop(LongText, 5400)
    /\ \E n \in notes :
          /\ n.student_id = resp.student
          /\ n.extracted_text # Nothing
          /\ TextLen(n.extracted_text[1]) = 5000

\* C28: an upload only adds: the Note rows and the chunks that were there
\* stay as they were, the only new row is the Note it returns, and the new
\* chunks are in the uploader's collection under a note_id no chunk had.
C28_UploadOnlyAdds ==
    [][ resp'.op = "upload" =>
        /\ notes \subseteq notes'
        /\ notes' \ notes \subseteq
              (IF resp'.note = Nothing THEN {} ELSE {resp'.note[1]})
        /\ \A name \in DOMAIN chroma :
              name \in DOMAIN chroma' /\ chroma[name] \subseteq chroma'[name]
        /\ \A name \in DOMAIN chroma' : \A c \in chroma'[name] :
              (name \notin DOMAIN chroma \/ c \notin chroma[name]) =>
                  /\ name = collection_name(resp'.student)
                  /\ c.id[1] = resp'.chroma_id
                  /\ \A old \in DOMAIN chroma : \A d \in chroma[old] :
                        d.id[1] # c.id[1]
      ]_vars

\* an upload returned its Note while the student had another note with
\* chunks
C28_Witness ==
    /\ resp.op = "upload" /\ resp.status = 201 /\ resp.chroma_id # 0
    /\ \E n \in notes :
          n.student_id = resp.student /\ n.id # resp.note[1].id
    /\ \E c \in CollectionOf(chroma, resp.student) :
          c.id[1] # resp.chroma_id

\* C27: extract_text never raises; under a declared type it does not
\* support, and when the parser or the OCR pass fails on the bytes, it
\* returns the empty text.
C27_ExtractNeverRaises ==
    ex.pc = "done" =>
        LET failed ==
                \/ ex.lib = "fail"
                \/ ex.file_bytes.kind = "corrupt"
                \/ ex.file_type = <<"p","d","f">>
                      /\ ex.file_bytes.kind # "pdf"
                \/ ex.file_type # <<"p","d","f">>
                      /\ ex.file_bytes.kind # "image"
        IN  /\ ~ex.raised
            /\ ex.file_type \notin SupportedExtensions => ex.text = << >>
            /\ failed => ex.text = << >>

\* the PDF extractor was given bytes that are no PDF and the call
\* returned the empty text
C27_Witness ==
    /\ ex.pc = "done"
    /\ ex.file_type = <<"p","d","f">>
    /\ ex.file_bytes.kind = "corrupt"
    /\ ~ex.raised /\ ex.text = << >>

\* C21: deleting a note, or updating or deleting a job application, that
\* does not exist or is not the caller's is answered 404 and changes no
\* Note row, no job application and no chunk.
C21_NotFoundChangesNothing ==
    [][ LET missing ==
                \/ /\ resp'.op = "delete"
                   /\ ~\E n \in notes : /\ n.id = resp'.note_id
                                        /\ n.student_id = resp'.student
                \/ /\ resp'.op \in {"update_application",
                                    "delete_application"}
                   /\ ~\E a \in applications :
                          /\ a.id = resp'.application_id
                          /\ a.student_id = resp'.student
        IN  missing => /\ resp'.status = 404
                       /\ UNCHANGED <<notes, applications, chroma>>
      ]_vars

\* an update of another student's application was answered 404
C21_Witness ==
    /\ resp.op = "update_application" /\ resp.status = 404
    /\ \E a \in applications :
          a.id = resp.application_id /\ a.student_id # resp.student
    /\ notes # {}

\* C29: no two users have the same email, whatever the interleaving of the
\* registrations; a registration whose email has an account, at its check
\* or at its commit, is refused (400, or 500 from the commit) and adds no
\* user.
C29_EmailsUnique ==
    /\ \A u, v \in users : u.email = v.email => u = v
    /\ \A t \in Threads :
          regs[t].pc = "done" =>
              /\ regs[t].status \in {201, 400, 500}
              /\ regs[t].status = 201 <=> \E u \in users : u.id = t
              /\ regs[t].status = 201 =>
                    \E u \in users : u.id = t /\ u.email = regs[t].email

\* two registrations for one email both passed the check; one was
\* committed and the other refused by the commit
C29_Witness ==
    \E s, t \in Threads :
        /\ regs[s].pc = "done" /\ regs[s].status = 201
        /\ regs[t].pc = "done" /\ regs[t].status = 500
        /\ regs[s].email = regs[t].email
        /\ Cardinality({ u \in users : u.email = regs[s].email }) = 1

\* C30: two logins that fail get the same status, 401, and the same
\* detail, whether the email has an account or not.
C30_LoginFailuresAlike ==
    \A j, k \in 1..2 :
        (/\ logins[j].pc = "done" /\ logins[j].status # 200
         /\ logins[k].pc = "done" /\ logins[k].status # 200)
        => /\ logins[j].status = 401
           /\ logins[j].status = logins[k].status
           /\ logins[j].detail = logins[k].detail
           /\ logins[j].token = Nothing

\* one login failed for an email without an account, the other for a
\* known email with a wrong password
C30_Witness ==
    \E j, k \in 1..2 :
        /\ logins[j].pc = "done" /\ ~logins[j].known
        /\ logins[j].status = 401
        /\ logins[k].pc = "done" /\ logins[k].known
        /\ logins[k].status = 401
        /\ \E u \in users : /\ u.email = logins[k].email
                            /\ u.hashed_password[1].of # logins[k].password

====
